---- MODULE Spec2Model ----
(***************************************************************************)
(* DrawFlatColored, the flat forward drawing pass of amethyst_renderer     *)
(* (pass/flat_colored/interleaved.rs): the pass's transparency setting and *)
(* the output compile requests from it, and the sequence of draw_mesh      *)
(* invocations apply makes for one frame of ECS data.                      *)
(*                                                                         *)
(* An Option<T> is a sequence of length at most one.  A reference to a     *)
(* component (&Material, &Rgba, &GlobalTransform, &Camera) is the entity   *)
(* that owns the component: a storage is the set of entities bearing it.   *)
(***************************************************************************)
EXTENDS Integers, Sequences, FiniteSets

\* Number of entities of the world.
NumEntities == 2
\* Longest visible_ordered sequence.
MaxOrdered == 2

Entities == 1..NumEntities

None == <<>>
Some(x) == <<x>>

\* Option<T> over a set of values.
OptionOf(S) == {None} \cup {Some(x) : x \in S}

\* Storage::get(entity): the entity's own component, or None.
Get(storage, e) == IF e \in storage THEN Some(e) ELSE None

\* Handles a MeshHandle component can hold, and the meshes the asset storage
\* has loaded: the asset behind "pending" is not ready.
Handles == {"loaded", "pending"}
LoadedMeshes == {"loaded"}

\* AssetStorage<Mesh>::get(handle).
mesh_storage_get(h) == IF h \in LoadedMeshes THEN Some(h) ELSE None

ColorMasks == {"ALL", "NONE"}
Blends == {"ALPHA", "ADD"}
DepthModes == {"LessEqualWrite", "LessEqualTest"}

\* Sequences over S of length at most n.
RECURSIVE SeqsUpTo(_, _)
SeqsUpTo(S, n) ==
    IF n = 0 THEN {<<>>}
    ELSE LET shorter == SeqsUpTo(S, n - 1)
         IN  shorter \cup {Append(s, x) : s \in {t \in shorter : Len(t) = n - 1}, x \in S}

\* Visibility { visible_unordered: BitSet, visible_ordered: Vec<Entity> }
Visibilities ==
    [visible_unordered : SUBSET Entities, visible_ordered : SeqsUpTo(Entities, MaxOrdered)]

VARIABLES
    transparency,   \* DrawFlatColored::transparency
    output,         \* the output the last compile requested from the effect builder
    active,         \* ActiveCamera::entity
    camera,         \* ReadStorage<Camera>
    visibility,     \* Option<Read<Visibility>>
    hidden,         \* ReadStorage<Hidden>
    hidden_prop,    \* ReadStorage<HiddenPropagate>
    mesh,           \* ReadStorage<MeshHandle>: entity -> Option<handle>
    material,       \* ReadStorage<Material>
    global,         \* ReadStorage<GlobalTransform>
    rgba,           \* ReadStorage<Rgba>
    applied,        \* whether apply has run on this frame's data
    calls           \* the draw_mesh invocations of the last apply, in order

pass == <<transparency, output>>
world == <<active, camera, visibility, hidden, hidden_prop, mesh, material, global, rgba>>
frame == <<applied, calls>>
vars == <<transparency, output, active, camera, visibility, hidden, hidden_prop,
          mesh, material, global, rgba, applied, calls>>

----------------------------------------------------------------------------
(* new, with_transparency, compile *)

\* DrawFlatColored::new(): Default::default()
new == None

\* EffectBuilder::with_output(name, depth)
with_output(name, depth) ==
    [name |-> name, blended |-> FALSE, mask |-> None, blend |-> None, depth |-> depth]

\* EffectBuilder::with_blended_output(name, mask, blend, depth)
with_blended_output(name, mask, blend, depth) ==
    [name |-> name, blended |-> TRUE, mask |-> Some(mask), blend |-> Some(blend),
     depth |-> depth]

\* CompileOutput with a missing depth mode replaced by the opaque default.
CompileOutputDefaultDepth(t) ==
    IF t # None
    THEN with_blended_output("color", t[1][1], t[1][2],
                             IF t[1][3] = None THEN Some("LessEqualWrite") ELSE t[1][3])
    ELSE with_output("color", Some("LessEqualWrite"))

\* The match on self.transparency in compile.
CompileOutput(t) ==
    IF t # None
    THEN with_blended_output("color", t[1][1], t[1][2], t[1][3])
    ELSE with_output("color", Some("LessEqualWrite"))

with_transparency(m, b, d) ==
    /\ transparency' = Some(<<m, b, d>>)
    /\ UNCHANGED <<output, world, frame>>

compile ==
    /\ output' = Some(CompileOutput(transparency))
    /\ UNCHANGED <<transparency, world, frame>>

----------------------------------------------------------------------------
(* apply *)

\* pass::util::get_camera: the active camera if it bears Camera and
\* GlobalTransform, else the first entity of the (camera, global) join.
get_camera(act, cams, globals) ==
    LET both == cams \cap globals
    IN  IF act # None /\ act[1] \in both THEN Some(act[1])
        ELSE IF both # {} THEN Some(CHOOSE e \in both : \A f \in both : e <= f)
        ELSE None

\* The entities of a join, in the order the join yields them: a join walks
\* the entity ids in ascending order.
JoinOrder(S) == SelectSeq([i \in 1..NumEntities |-> i], LAMBDA e : e \in S)

\* UnculledJoin without the !&hidden_prop term.
UnculledJoinIgnoresPropagate(hid, hprop) ==
    {e \in Entities : /\ mesh[e] # None
                      /\ e \in material
                      /\ e \in global
                      /\ e \notin hid}

\* The join of the None branch:
\* (&mesh, &material, &global, rgba.maybe(), !&hidden, !&hidden_prop).join()
UnculledJoin(hid, hprop) ==
    {e \in Entities : /\ mesh[e] # None
                      /\ e \in material
                      /\ e \in global
                      /\ e \notin hid
                      /\ e \notin hprop}

\* UnorderedJoin with material.maybe() in place of &material.
UnorderedJoinMaterialOptional(v) ==
    {e \in Entities : /\ mesh[e] # None
                      /\ e \in global
                      /\ e \in v.visible_unordered}

\* The join of the Some branch:
\* (&mesh, &material, &global, rgba.maybe(), &visibility.visible_unordered).join()
UnorderedJoin(v) ==
    {e \in Entities : /\ mesh[e] # None
                      /\ e \in material
                      /\ e \in global
                      /\ e \in v.visible_unordered}

\* One draw_mesh invocation of a join body: mesh_storage.get(mesh),
\* Some(material), rgba, camera, Some(global).
JoinCall(phase, e, cam) ==
    [phase |-> phase, entity |-> e,
     mesh |-> mesh_storage_get(mesh[e][1]),
     material |-> Some(e),
     rgba |-> Get(rgba, e),
     camera |-> cam,
     global |-> Some(e)]

\* OrderedCall with the arguments of the join bodies: Some(material), Some(global).
OrderedCallAsJoinBody(e, cam) ==
    [phase |-> "ordered", entity |-> e,
     mesh |-> mesh_storage_get(mesh[e][1]),
     material |-> Some(e),
     rgba |-> Get(rgba, e),
     camera |-> cam,
     global |-> Some(e)]

\* The draw_mesh invocation of the visible_ordered loop body:
\* material.get(*entity), rgba.get(*entity), global.get(*entity).
OrderedCall(e, cam) ==
    [phase |-> "ordered", entity |-> e,
     mesh |-> mesh_storage_get(mesh[e][1]),
     material |-> Get(material, e),
     rgba |-> Get(rgba, e),
     camera |-> cam,
     global |-> Get(global, e)]

\* JoinCalls leaving the loop at the first mesh that is not loaded.
JoinCallsStopAtPending(phase, S, cam) ==
    LET order == JoinOrder(S)
        pending == {i \in 1..Len(order) : mesh_storage_get(mesh[order[i]][1]) = None}
        stop == IF pending = {} THEN Len(order)
                ELSE (CHOOSE i \in pending : \A j \in pending : i <= j) - 1
    IN  [i \in 1..stop |-> JoinCall(phase, order[i], cam)]

\* The calls of a for loop over a join.
JoinCalls(phase, S, cam) ==
    LET order == JoinOrder(S)
    IN  [i \in 1..Len(order) |-> JoinCall(phase, order[i], cam)]

\* OrderedSelected skipping an entity that has no GlobalTransform.
OrderedSelectedNeedsTransform(e) == mesh[e] # None /\ e \in global

\* if let Some(mesh) = mesh.get(*entity)
OrderedSelected(e) == mesh[e] # None

\* OrderedCalls drawing an entity once: not again after the unordered join drew
\* it, nor at its later occurrences in visible_ordered.
OrderedCallsDeduplicated(v, cam) ==
    LET vo == v.visible_ordered
        keep == {i \in 1..Len(vo) : /\ OrderedSelected(vo[i])
                                    /\ vo[i] \notin UnorderedJoin(v)
                                    /\ \A j \in 1..(i - 1) : vo[j] # vo[i]}
        order == SelectSeq([i \in 1..Len(vo) |-> IF i \in keep THEN Some(vo[i]) ELSE None],
                           LAMBDA o : o # None)
    IN  [i \in 1..Len(order) |-> OrderedCall(order[i][1], cam)]

\* for entity in &visibility.visible_ordered { if let Some(mesh) = ... }
OrderedCalls(v, cam) ==
    LET order == SelectSeq(v.visible_ordered, OrderedSelected)
    IN  [i \in 1..Len(order) |-> OrderedCall(order[i], cam)]

\* CulledCalls with the two loops exchanged.
CulledCallsOrderedFirst(v, cam) ==
    OrderedCalls(v, cam) \o JoinCalls("unordered", UnorderedJoin(v), cam)

\* The Some branch: the unordered join, then the ordered loop.
CulledCalls(v, cam) == JoinCalls("unordered", UnorderedJoin(v), cam) \o OrderedCalls(v, cam)

\* ApplyCalls returning early when get_camera found no camera.
ApplyCallsNeedsCamera(vis, hid, hprop, cam) ==
    IF cam = None THEN <<>>
    ELSE IF vis = None
    THEN JoinCalls("unculled", UnculledJoin(hid, hprop), cam)
    ELSE CulledCalls(vis[1], cam)

\* ApplyCalls with the Some branch filtering Hidden and HiddenPropagate too.
ApplyCallsRecheckHidden(vis, hid, hprop, cam) ==
    IF vis = None
    THEN JoinCalls("unculled", UnculledJoin(hid, hprop), cam)
    ELSE SelectSeq(CulledCalls(vis[1], cam),
                   LAMBDA c : c.entity \notin hid /\ c.entity \notin hprop)

\* The match on visibility in apply: the draw_mesh invocations of one frame.
ApplyCalls(vis, hid, hprop, cam) ==
    IF vis = None
    THEN JoinCalls("unculled", UnculledJoin(hid, hprop), cam)
    ELSE CulledCalls(vis[1], cam)

\* Pass::apply: let camera = get_camera(active, &camera, &global); match visibility
apply ==
    /\ calls' = ApplyCalls(visibility, hidden, hidden_prop, get_camera(active, camera, global))
    /\ applied' = TRUE
    /\ UNCHANGED <<pass, world>>

\* pass::util::draw_mesh issues its draw call unless the mesh is None.
draw_mesh_draws(c) == c.mesh # None

\* The draw calls the last apply issued, in order.
draws == SelectSeq(calls, draw_mesh_draws)

----------------------------------------------------------------------------
(* Specifications.  The pass never writes the ECS data, so each           *)
(* specification draws one frame's data in its initial state and applies  *)
(* the pass to it.  Each one varies the storages its properties are about *)
(* and holds the others fixed.                                            *)

InitPass ==
    /\ transparency = new
    /\ output = None

InitFrame ==
    /\ applied = FALSE
    /\ calls = <<>>

\* Some MeshHandle components name a mesh that is not loaded.
AnyMeshes == [Entities -> OptionOf(Handles)]
\* Every MeshHandle component names a loaded mesh.
LoadedMeshesOnly == [Entities -> OptionOf(LoadedMeshes)]

\* Entity 1 is the only camera and no ActiveCamera is set.
OneCamera ==
    /\ active = None
    /\ camera = {1}

\* Frames with or without a Visibility resource; meshes loaded or not.
Init ==
    /\ InitPass /\ InitFrame /\ OneCamera
    /\ visibility \in OptionOf(Visibilities)
    /\ hidden = {}
    /\ hidden_prop = {}
    /\ mesh \in AnyMeshes
    /\ material \in SUBSET Entities
    /\ global \in SUBSET Entities
    /\ rgba = {}

\* Frames without a Visibility resource.
InitUnculled ==
    /\ InitPass /\ InitFrame /\ OneCamera
    /\ visibility = None
    /\ hidden \in SUBSET Entities
    /\ hidden_prop \in SUBSET Entities
    /\ mesh \in AnyMeshes
    /\ material \in SUBSET Entities
    /\ global \in SUBSET Entities
    /\ rgba \in SUBSET Entities

\* Frames with a Visibility resource and hidden entities; every entity has a
\* GlobalTransform.
InitHidden ==
    /\ InitPass /\ InitFrame /\ OneCamera
    /\ visibility \in {Some(v) : v \in Visibilities}
    /\ hidden \in SUBSET Entities
    /\ hidden_prop \in SUBSET Entities
    /\ mesh \in LoadedMeshesOnly
    /\ material \in SUBSET Entities
    /\ global = Entities
    /\ rgba = {}

\* Frames with tinted and untinted entities.
InitTint ==
    /\ InitPass /\ InitFrame /\ OneCamera
    /\ visibility \in OptionOf(Visibilities)
    /\ hidden = {}
    /\ hidden_prop = {}
    /\ mesh \in LoadedMeshesOnly
    /\ material \in SUBSET Entities
    /\ global \in SUBSET Entities
    /\ rgba \in SUBSET Entities

\* Frames with any cameras and any ActiveCamera; every entity has a Material.
InitCamera ==
    /\ InitPass /\ InitFrame
    /\ active \in OptionOf(Entities)
    /\ camera \in SUBSET Entities
    /\ visibility \in OptionOf(Visibilities)
    /\ hidden = {}
    /\ hidden_prop = {}
    /\ mesh \in LoadedMeshesOnly
    /\ material = Entities
    /\ global \in SUBSET Entities
    /\ rgba = {}

\* The pass alone, in a world with no entities' components.
InitCompile ==
    /\ InitPass /\ InitFrame
    /\ active = None
    /\ camera = {}
    /\ visibility = None
    /\ hidden = {}
    /\ hidden_prop = {}
    /\ mesh = [e \in Entities |-> None]
    /\ material = {}
    /\ global = {}
    /\ rgba = {}

Next == apply

NextCompile ==
    \/ \E m \in ColorMasks, b \in Blends, d \in OptionOf(DepthModes) : with_transparency(m, b, d)
    \/ compile

Spec == Init /\ [][Next]_vars
SpecUnculled == InitUnculled /\ [][Next]_vars
SpecHidden == InitHidden /\ [][Next]_vars
SpecTint == InitTint /\ [][Next]_vars
SpecCamera == InitCamera /\ [][Next]_vars
SpecCompile == InitCompile /\ [][NextCompile]_vars

----------------------------------------------------------------------------
(* Properties *)

\* The entities of a sequence of draw_mesh invocations, in order.
CallEntities(cs) == [i \in DOMAIN cs |-> cs[i].entity]

\* How many invocations of a sequence are for entity e.
CallCount(cs, e) == Cardinality({i \in DOMAIN cs : cs[i].entity = e})

\* How many times e occurs in a sequence of entities.
Occurrences(es, e) == Cardinality({i \in DOMAIN es : es[i] = e})

\* The invocations a phase of apply made.
PhaseCalls(p) == SelectSeq(calls, LAMBDA c : c.phase = p)

HasMesh(e) == mesh[e] # None
Culled == applied /\ visibility # None
Unculled == applied /\ visibility = None

\* C1: with no Visibility resource, draw_mesh is invoked exactly once for each
\* entity bearing MeshHandle, Material and GlobalTransform and neither Hidden
\* nor HiddenPropagate, and never for any other entity.
C1_UnculledSelection ==
    Unculled =>
        \A e \in Entities :
            CallCount(calls, e) =
                IF /\ HasMesh(e) /\ e \in material /\ e \in global
                   /\ e \notin hidden /\ e \notin hidden_prop
                THEN 1 ELSE 0

\* C1 witness: one entity is drawn while a complete entity bearing
\* HiddenPropagate and one bearing Hidden would be left out.
C1_Witness ==
    /\ Unculled
    /\ Len(calls) = 1
    /\ \E e \in Entities :
        /\ HasMesh(e) /\ e \in material /\ e \in global
        /\ e \in hidden_prop /\ e \notin hidden
        /\ CallCount(calls, e) = 0

\* C2 as stated: every entity of visible_unordered bearing MeshHandle and
\* GlobalTransform is drawn exactly once, with or without a Material.
C2_Original ==
    Culled =>
        \A e \in visibility[1].visible_unordered :
            (HasMesh(e) /\ e \in global) => CallCount(calls, e) = 1

\* C2 amended: the unordered phase invokes draw_mesh exactly once for each
\* entity of visible_unordered bearing MeshHandle, Material and
\* GlobalTransform, and for no other entity.
C2_UnorderedSelection ==
    Culled =>
        \A e \in Entities :
            CallCount(PhaseCalls("unordered"), e) =
                IF /\ e \in visibility[1].visible_unordered
                   /\ HasMesh(e) /\ e \in material /\ e \in global
                THEN 1 ELSE 0

\* C2 witness: of two entities of visible_unordered bearing MeshHandle and
\* GlobalTransform, the one with a Material is drawn, the other is not.
C2_Witness ==
    /\ Culled
    /\ \E e, f \in visibility[1].visible_unordered :
        /\ HasMesh(e) /\ e \in global /\ e \in material
        /\ HasMesh(f) /\ f \in global /\ f \notin material
        /\ CallCount(PhaseCalls("unordered"), e) = 1
        /\ CallCount(calls, f) = 0

\* C3: the invocations made for visible_ordered are visible_ordered with the
\* entities lacking a MeshHandle removed, in the same order.
C3_OrderedSequence ==
    Culled =>
        CallEntities(PhaseCalls("ordered")) =
            SelectSeq(visibility[1].visible_ordered, HasMesh)

\* C3 witness: two different entities are drawn in the order given, which is
\* not the order of their ids.
C3_Witness ==
    /\ Culled
    /\ Len(PhaseCalls("ordered")) = 2
    /\ PhaseCalls("ordered")[1].entity > PhaseCalls("ordered")[2].entity

\* C8: every invocation of the visible_unordered phase precedes every
\* invocation of the visible_ordered phase.
C8_UnorderedBeforeOrdered ==
    Culled =>
        LET ordered == SelectSeq(visibility[1].visible_ordered, HasMesh)
            k == Len(calls) - Len(ordered)
        IN  /\ \A i, j \in DOMAIN calls :
                (calls[i].phase = "unordered" /\ calls[j].phase = "ordered") => i < j
            /\ k >= 0
            /\ \A i \in 1..k : /\ calls[i].entity \in visibility[1].visible_unordered
                               /\ \A j \in 1..k : calls[j].entity = calls[i].entity => j = i
            /\ \A i \in 1..Len(ordered) : calls[k + i].entity = ordered[i]

\* C8 witness: A = 2 in visible_unordered and B = 1 at visible_ordered
\* position 0 are drawn A then B.
C8_Witness ==
    /\ Culled
    /\ visibility[1].visible_unordered = {2}
    /\ visibility[1].visible_ordered = <<1>>
    /\ CallEntities(calls) = <<2, 1>>

\* C10: on the culled path the invocations for an entity number 1 if it is in
\* visible_unordered and bears MeshHandle, Material and GlobalTransform, plus
\* its occurrences in visible_ordered if it bears a MeshHandle.
C10_NoDeduplication ==
    Culled =>
        \A e \in Entities :
            CallCount(calls, e) =
                (IF /\ e \in visibility[1].visible_unordered
                    /\ HasMesh(e) /\ e \in material /\ e \in global
                 THEN 1 ELSE 0)
                + (IF HasMesh(e) THEN Occurrences(visibility[1].visible_ordered, e) ELSE 0)

\* C10 witness: an entity listed in visible_unordered and twice in
\* visible_ordered is drawn three times.
C10_Witness ==
    /\ Culled
    /\ \E e \in visibility[1].visible_unordered :
        /\ Occurrences(visibility[1].visible_ordered, e) = 2
        /\ CallCount(calls, e) = 3

Loaded(e) == mesh[e] # None /\ mesh[e][1] \in LoadedMeshes

\* The entities apply selects, in the order of its loops.
SelectedEntities ==
    IF visibility = None
    THEN JoinOrder({e \in Entities : /\ HasMesh(e) /\ e \in material /\ e \in global
                                     /\ e \notin hidden /\ e \notin hidden_prop})
    ELSE JoinOrder({e \in visibility[1].visible_unordered :
                        HasMesh(e) /\ e \in material /\ e \in global})
         \o SelectSeq(visibility[1].visible_ordered, HasMesh)

NoCamera == get_camera(active, camera, global) = None

\* C4 as stated: when camera resolution finds no camera, draw_mesh is invoked
\* for no entity.
C4_Original == (applied /\ NoCamera) => calls = <<>>

\* C4 amended: when camera resolution finds no camera, apply invokes draw_mesh
\* for every entity it selects, as it does with a camera, and passes camera
\* as None.
C4_CameraPassedThrough ==
    (applied /\ NoCamera) =>
        /\ CallEntities(calls) = SelectedEntities
        /\ \A i \in DOMAIN calls : calls[i].camera = None

\* C4 witness: no camera is found and draw_mesh is invoked.
C4_Witness ==
    /\ applied /\ NoCamera
    /\ camera # {}
    /\ active # None
    /\ Len(calls) >= 2

\* The output the claim C5 expects for a transparency setting.
C5_Expected(t) ==
    IF t = None
    THEN [name |-> "color", blended |-> FALSE, mask |-> None, blend |-> None,
          depth |-> Some("LessEqualWrite")]
    ELSE [name |-> "color", blended |-> TRUE, mask |-> Some(t[1][1]),
          blend |-> Some(t[1][2]), depth |-> t[1][3]]

\* C5: a compile requests its output from the transparency at the time of the
\* call: unblended "color" with LessEqualWrite when none is configured, else
\* blended "color" with exactly the configured mask, blend and optional depth.
C5_CompileOutput ==
    [][output' # output => output' = Some(C5_Expected(transparency))]_vars

\* C5 witness: after with_transparency(ALL, ALPHA, None), compile has requested
\* a blended output whose depth is None.
C5_Witness ==
    /\ transparency = Some(<<"ALL", "ALPHA", None>>)
    /\ output = Some([name |-> "color", blended |-> TRUE, mask |-> Some("ALL"),
                      blend |-> Some("ALPHA"), depth |-> None])

\* C6: an entity whose MeshHandle does not resolve gets no draw call, and the
\* draw calls of the frame are those of the other selected entities, in order,
\* as if the unresolved entities were not selected.
C6_UnresolvedSkipped ==
    applied =>
        CallEntities(draws) =
            IF visibility = None
            THEN JoinOrder({e \in Entities : /\ Loaded(e) /\ e \in material /\ e \in global
                                             /\ e \notin hidden /\ e \notin hidden_prop})
            ELSE JoinOrder({e \in visibility[1].visible_unordered :
                                Loaded(e) /\ e \in material /\ e \in global})
                 \o SelectSeq(visibility[1].visible_ordered, Loaded)

\* C6 witness: the unresolved entity 1 is first in the unordered join and last
\* in visible_ordered; entity 2 is drawn after it and before it.
C6_Witness ==
    /\ Culled
    /\ mesh[1] = Some("pending")
    /\ CallEntities(calls) = <<1, 2, 2, 1>>
    /\ CallEntities(draws) = <<2, 2>>

\* C7: the ordered loop invokes draw_mesh for every occurrence of an entity
\* bearing a MeshHandle, whatever else it bears, passing Material and
\* GlobalTransform as the entity's own component or None; on every path Rgba
\* is passed as the entity's own component or None.
C7_OptionalArguments ==
    applied =>
        /\ \A i \in DOMAIN calls :
            calls[i].rgba = IF calls[i].entity \in rgba THEN Some(calls[i].entity) ELSE None
        /\ visibility # None =>
            LET oc == PhaseCalls("ordered")
            IN  /\ \A e \in Entities :
                    HasMesh(e) =>
                        CallCount(oc, e) = Occurrences(visibility[1].visible_ordered, e)
                /\ \A i \in DOMAIN oc :
                    LET e == oc[i].entity
                    IN  /\ oc[i].material = IF e \in material THEN Some(e) ELSE None
                        /\ oc[i].global = IF e \in global THEN Some(e) ELSE None

\* C7 witness: the ordered loop draws one entity bearing only a MeshHandle and
\* one bearing Material, Rgba and GlobalTransform as well.
C7_Witness ==
    /\ Culled
    /\ \E i, j \in DOMAIN calls :
        /\ calls[i].phase = "ordered" /\ calls[j].phase = "ordered"
        /\ calls[i].material = None /\ calls[i].rgba = None /\ calls[i].global = None
        /\ calls[j].material # None /\ calls[j].rgba # None /\ calls[j].global # None

Listed(e) ==
    \/ e \in visibility[1].visible_unordered
    \/ Occurrences(visibility[1].visible_ordered, e) > 0

\* C9: on the culled path Hidden and HiddenPropagate do not affect selection:
\* the invocations are those of the same frame with no entity hidden, and an
\* entity listed in neither set is not drawn.
C9_HiddenNotRechecked ==
    Culled =>
        /\ calls = ApplyCalls(visibility, {}, {}, get_camera(active, camera, global))
        /\ CallEntities(calls) = SelectedEntities
        /\ \A e \in Entities : ~Listed(e) => CallCount(calls, e) = 0

\* C9 witness: a listed entity bearing Hidden and HiddenPropagate is drawn by
\* both phases, and a Hidden entity that is not listed is not drawn.
C9_Witness ==
    /\ Culled
    /\ \E e, f \in hidden :
        /\ e \in hidden_prop
        /\ CallCount(PhaseCalls("unordered"), e) = 1
        /\ CallCount(PhaseCalls("ordered"), e) = 1
        /\ HasMesh(f) /\ f \in material /\ ~Listed(f)
        /\ CallCount(calls, f) = 0

====
